---- MODULE Spec2Model ----
(***************************************************************************)
(* Model of scripts/load-skill.py: the frontmatter parser, the catalog     *)
(* scanner, the keyword search and the name resolver.                      *)
(*                                                                         *)
(* Strings are sequences of one-character strings, so that strip, split,   *)
(* lower, endswith, substring containment and comparison are computed the  *)
(* way Python computes them.                                               *)
(***************************************************************************)
EXTENDS Integers, Sequences, FiniteSets, TLC

VARIABLES doc, pos, in_frontmatter, metadata, pc,
          fs, listing, cmd, arg, out

vars == <<doc, pos, in_frontmatter, metadata, pc, fs, listing, cmd, arg, out>>
parseVars == <<doc, pos, in_frontmatter, metadata, pc>>
catVars == <<fs, listing, cmd, arg, out>>

(***************************************************************************)
(* Bounds                                                                  *)
(***************************************************************************)
MaxLines == 4
MaxChildren == 2

(***************************************************************************)
(* Python str primitives                                                   *)
(***************************************************************************)
IsSpace(c) == c = " "

RECURSIVE LStrip(_)
LStrip(s) ==
  IF s # << >> /\ IsSpace(Head(s)) THEN LStrip(Tail(s)) ELSE s

RECURSIVE RStrip(_)
RStrip(s) ==
  IF s # << >> /\ IsSpace(s[Len(s)]) THEN RStrip(SubSeq(s, 1, Len(s) - 1)) ELSE s

Strip(s) == RStrip(LStrip(s))

HasColon(s) == \E i \in 1..Len(s) : s[i] = ":"

FirstColon(s) ==
  CHOOSE i \in 1..Len(s) : s[i] = ":" /\ \A j \in 1..(i - 1) : s[j] # ":"

\* line.split(':', 1) -> key, value
SplitKey(s) == SubSeq(s, 1, FirstColon(s) - 1)
SplitValue(s) == SubSeq(s, FirstColon(s) + 1, Len(s))

LowerChar(c) ==
  CASE c = "A" -> "a"
    [] c = "B" -> "b"
    [] c = "G" -> "g"
    [] c = "N" -> "n"
    [] c = "Z" -> "z"
    [] OTHER -> c

Lower(s) == [i \in 1..Len(s) |-> LowerChar(s[i])]

\* Unicode code points of the characters the model uses
Code(c) ==
  CASE c = " " -> 32
    [] c = "-" -> 45
    [] c = "." -> 46
    [] c = ":" -> 58
    [] c = "A" -> 65
    [] c = "B" -> 66
    [] c = "G" -> 71
    [] c = "N" -> 78
    [] c = "Z" -> 90
    [] c = "a" -> 97
    [] c = "b" -> 98
    [] c = "c" -> 99
    [] c = "d" -> 100
    [] c = "e" -> 101
    [] c = "g" -> 103
    [] c = "i" -> 105
    [] c = "k" -> 107
    [] c = "l" -> 108
    [] c = "m" -> 109
    [] c = "n" -> 110
    [] c = "o" -> 111
    [] c = "p" -> 112
    [] c = "q" -> 113
    [] c = "r" -> 114
    [] c = "s" -> 115
    [] c = "t" -> 116
    [] c = "v" -> 118
    [] c = "x" -> 120
    [] c = "y" -> 121
    [] c = "z" -> 122

\* a < b for Python str: lexicographic by code point
RECURSIVE StrLess(_, _)
StrLess(a, b) ==
  IF b = << >> THEN FALSE
  ELSE IF a = << >> THEN TRUE
  ELSE IF Code(Head(a)) # Code(Head(b)) THEN Code(Head(a)) < Code(Head(b))
  ELSE StrLess(Tail(a), Tail(b))

\* sub in s
Contains(s, sub) ==
  \E i \in 0..(Len(s) - Len(sub)) : SubSeq(s, i + 1, i + Len(sub)) = sub

EndsWith(s, suf) ==
  Len(s) >= Len(suf) /\ SubSeq(s, Len(s) - Len(suf) + 1, Len(s)) = suf

(***************************************************************************)
(* dict                                                                    *)
(***************************************************************************)
EmptyDict == [k \in {} |-> << >>]

\* metadata[key] = value
DictPutFirstWins(d, key, value) ==
  [k \in DOMAIN d \cup {key} |-> IF k \in DOMAIN d THEN d[k] ELSE value]

DictPut(d, key, value) ==
  [k \in DOMAIN d \cup {key} |-> IF k = key THEN value ELSE d[k]]

\* metadata.get(key, default)
DictGet(d, key, default) == IF key \in DOMAIN d THEN d[key] ELSE default

(***************************************************************************)
(* parse_frontmatter: the body of the loop over the lines of the file.     *)
(* st = [in_frontmatter, metadata, stop]; stop is the break.               *)
(***************************************************************************)
Delim == <<"-", "-", "-">>

\* the branch taken on a '---' line
OnDelimiterNoBreak(st) ==
  [st EXCEPT !.in_frontmatter = TRUE]

OnDelimiter(st) ==
  IF ~st.in_frontmatter
    THEN [st EXCEPT !.in_frontmatter = TRUE]
    ELSE [st EXCEPT !.stop = TRUE]

\* the branch taken on a line holding a colon, inside the frontmatter
OnField(st, line) ==
  [st EXCEPT !.metadata =
     DictPut(st.metadata, Strip(SplitKey(line)), Strip(SplitValue(line)))]

LoopBody(st, raw) ==
  LET line == Strip(raw) IN
    IF line = Delim THEN OnDelimiter(st)
    ELSE IF st.in_frontmatter /\ HasColon(line) THEN OnField(st, line)
    ELSE st

ParseStart == [in_frontmatter |-> FALSE, metadata |-> EmptyDict, stop |-> FALSE]

RECURSIVE ParseFrom(_, _, _)
ParseFrom(lines, i, st) ==
  IF i > Len(lines) \/ st.stop THEN st.metadata
  ELSE ParseFrom(lines, i + 1, LoopBody(st, lines[i]))

\* the mapping parse_frontmatter returns for a file with these lines
parse_frontmatter(lines) == ParseFrom(lines, 1, ParseStart)

(***************************************************************************)
(* Documents for the parser specification                                  *)
(***************************************************************************)
LineSet ==
  { Delim,
    <<" ", "-", "-", "-">>,
    <<"a", ":", " ", "x">>,
    <<"a", ":", "y">>,
    <<" ", "a", " ", ":", " ", "z", ":", "x", " ">>,
    <<"b", ":", " ", "x">>,
    <<"x">>,
    << >> }

RECURSIVE SeqsUpTo(_, _)
SeqsUpTo(S, n) ==
  IF n = 0 THEN { << >> }
  ELSE LET shorter == SeqsUpTo(S, n - 1) IN
    shorter \cup { Append(s, x) : s \in {t \in shorter : Len(t) = n - 1}, x \in S }

ParserDocs == SeqsUpTo(LineSet, MaxLines)

(***************************************************************************)
(* The parser as a state machine: one step per line read                   *)
(***************************************************************************)
IdleCatalog ==
  /\ fs = << >>
  /\ listing = << >>
  /\ cmd = "none"
  /\ arg = << >>
  /\ out = [kind |-> "none", val |-> << >>]

ParseInit ==
  /\ doc \in ParserDocs
  /\ pos = 1
  /\ in_frontmatter = FALSE
  /\ metadata = EmptyDict
  /\ pc = "loop"
  /\ IdleCatalog

\* for line in f: ... (one iteration)
ReadLine ==
  /\ pc = "loop"
  /\ pos <= Len(doc)
  /\ LET st == LoopBody([in_frontmatter |-> in_frontmatter,
                         metadata |-> metadata, stop |-> FALSE], doc[pos]) IN
       /\ in_frontmatter' = st.in_frontmatter
       /\ metadata' = st.metadata
       /\ pc' = IF st.stop THEN "done" ELSE "loop"
       /\ pos' = IF st.stop THEN pos ELSE pos + 1
  /\ UNCHANGED <<doc, catVars>>

\* the file is exhausted: return metadata
EndOfFile ==
  /\ pc = "loop"
  /\ pos > Len(doc)
  /\ pc' = "done"
  /\ UNCHANGED <<doc, pos, in_frontmatter, metadata, catVars>>

ParseNext == ReadLine \/ EndOfFile

SpecParse == ParseInit /\ [][ParseNext]_vars

(***************************************************************************)
(* String literals of the program                                          *)
(***************************************************************************)
Suffix == <<"-", "s", "k", "i", "l", "l">>
kName == <<"n", "a", "m", "e">>
kDescription == <<"d", "e", "s", "c", "r", "i", "p", "t", "i", "o", "n">>
kVersion == <<"v", "e", "r", "s", "i", "o", "n">>
kActivation == <<"a", "c", "t", "i", "v", "a", "t", "i", "o", "n">>
NoDescription == <<"N", "o", " ">> \o kDescription
DefaultVersion == <<"1", ".", "0">>

(***************************************************************************)
(* The filesystem under the repository root.  fs maps the name of each     *)
(* immediate child of the root to what it is: a regular file, or a         *)
(* directory whose SKILL.md is absent, present but failing to open or      *)
(* decode ("unreadable"), or present with the given lines ("ok").          *)
(***************************************************************************)
sA == <<"a">>
sASkill == sA \o Suffix
sASkillSkill == sASkill \o Suffix
sBSkill == <<"B">> \o Suffix
sCSkill == <<"c">> \o Suffix

DirNames == {sA, sASkill, sASkillSkill, sBSkill, sCSkill}

FieldLine(key, value) == key \o <<":", " ">> \o value

DocPlain == << <<"x">> >>
DocZed == <<Delim, FieldLine(kName, <<"Z", "e", "d">>), Delim>>
DocAb == <<Delim, FieldLine(kName, <<"a", "b">>),
           FieldLine(kDescription, <<"G", "r", "e", "a", "t">>), Delim>>
DocBo == <<Delim, FieldLine(kName, <<"B", "o">>),
           FieldLine(kActivation, <<"z", "e", "d">>), Delim, <<"x">> >>

CatalogDocs == {DocPlain, DocZed, DocAb, DocBo}

Children ==
  { [is_dir |-> FALSE, skill_md |-> "absent", content |-> << >>],
    [is_dir |-> TRUE, skill_md |-> "absent", content |-> << >>],
    [is_dir |-> TRUE, skill_md |-> "unreadable", content |-> << >>] }
  \cup { [is_dir |-> TRUE, skill_md |-> "ok", content |-> d] : d \in CatalogDocs }

FileSystems ==
  UNION { [S -> Children] :
            S \in {T \in SUBSET DirNames : Cardinality(T) <= MaxChildren} }

\* repo_root.iterdir(): the children in an order the platform chooses
Iterdir(f) ==
  { s \in [1..Cardinality(DOMAIN f) -> DOMAIN f] :
      \A i, j \in DOMAIN s : i # j => s[i] # s[j] }

\* (repo_root / name / "SKILL.md"), as components below the root
SkillMdPath(name) == <<name, "SKILL.md">>

\* skill_dir.exists() and (skill_dir / "SKILL.md").exists()
HasSkillMd(f, name) == name \in DOMAIN f /\ f[name].skill_md # "absent"

(***************************************************************************)
(* get_all_skills                                                          *)
(***************************************************************************)
\* the dict appended for one directory
SkillEntry(f, name) ==
  LET md == parse_frontmatter(f[name].content) IN
    [directory |-> name,
     path |-> SkillMdPath(name),
     name |-> DictGet(md, kName, name),
     description |-> DictGet(md, kDescription, NoDescription),
     version |-> DictGet(md, kVersion, DefaultVersion),
     activation |-> DictGet(md, kActivation, << >>)]

\* item.is_dir() and item.name.endswith('-skill'), then skill_md.exists()
IsListed(f, name) ==
  /\ f[name].is_dir
  /\ EndsWith(name, Suffix)
  /\ f[name].skill_md # "absent"

\* sorted(skills, key=lambda x: x['name']): stable, by str comparison
RECURSIVE InsertSorted(_, _)
InsertSorted(sorted, e) ==
  IF sorted = << >> THEN <<e>>
  ELSE IF StrLess(e.name, Head(sorted).name) THEN <<e>> \o sorted
  ELSE <<Head(sorted)>> \o InsertSorted(Tail(sorted), e)

Unsorted(skills) == skills

RECURSIVE SortedByName(_)
SortedByName(skills) ==
  IF skills = << >> THEN << >>
  ELSE InsertSorted(SortedByName(SubSeq(skills, 1, Len(skills) - 1)),
                    skills[Len(skills)])

RECURSIVE MapEntries(_, _)
MapEntries(f, names) ==
  IF names = << >> THEN << >>
  ELSE <<SkillEntry(f, Head(names))>> \o MapEntries(f, Tail(names))

\* the outcome of a scan that enumerates the root in this order: the sorted
\* list, or the exception open() / the decoder raises in parse_frontmatter
get_all_skills(f, order) ==
  LET listed == SelectSeq(order, LAMBDA n : IsListed(f, n)) IN
    IF \E i \in DOMAIN listed : f[listed[i]].skill_md = "unreadable"
      THEN [kind |-> "raised", val |-> << >>]
      ELSE [kind |-> "skills", val |-> SortedByName(MapEntries(f, listed))]

(***************************************************************************)
(* search_skills                                                           *)
(***************************************************************************)
SearchHit(skill, keyword) ==
  LET keyword_lower == Lower(keyword) IN
    \/ Contains(Lower(skill.name), keyword_lower)
    \/ Contains(Lower(skill.description), keyword_lower)
    \/ Contains(Lower(skill.activation), keyword_lower)

search_skills(f, order, keyword) ==
  LET skills == get_all_skills(f, order) IN
    IF skills.kind = "raised" THEN skills
    ELSE [kind |-> "skills",
          val |-> SelectSeq(skills.val, LAMBDA s : SearchHit(s, keyword))]

(***************************************************************************)
(* find_skill_path                                                         *)
(***************************************************************************)
NotFound == [kind |-> "notfound", val |-> << >>]
Found(path) == [kind |-> "path", val |-> path]

RECURSIVE FuzzyMatch(_, _)
FuzzyMatch(skills, skill_name) ==
  IF skills = << >> THEN NotFound
  ELSE IF Contains(Lower(Head(skills).name), Lower(skill_name))
    THEN Found(Head(skills).path)
  ELSE FuzzyMatch(Tail(skills), skill_name)

\* the second probe: not skill_name.endswith('-skill'), then the same test
\* on f"{skill_name}-skill"
SuffixProbeSkipped(f, skill_name) == FALSE

SuffixProbe(f, skill_name) ==
  ~EndsWith(skill_name, Suffix) /\ HasSkillMd(f, skill_name \o Suffix)

find_skill_path(f, order, skill_name) ==
  IF HasSkillMd(f, skill_name) THEN Found(SkillMdPath(skill_name))
  ELSE IF SuffixProbe(f, skill_name)
    THEN Found(SkillMdPath(skill_name \o Suffix))
  ELSE LET skills == get_all_skills(f, order) IN
    IF skills.kind = "raised" THEN skills
    ELSE FuzzyMatch(skills.val, skill_name)

(***************************************************************************)
(* The commands.  main() runs one command per process, so a command starts *)
(* from cmd = "none".                                                      *)
(***************************************************************************)
QueryNames ==
  { sA, sASkill, sASkillSkill, <<"B">>, <<"c">>, <<"z", "e", "d">>, <<"q">> }

Keywords ==
  { <<"Z", "e", "d">>, <<"g", "r", "e", "a", "t">>, <<"n", "o">>, <<"q">> }

IdleParser ==
  /\ doc = << >>
  /\ pos = 1
  /\ in_frontmatter = FALSE
  /\ metadata = EmptyDict
  /\ pc = "done"

Init ==
  /\ fs \in FileSystems
  /\ listing = << >>
  /\ cmd = "none"
  /\ arg = << >>
  /\ out = [kind |-> "none", val |-> << >>]
  /\ IdleParser

\* list_skills()
ListSkills ==
  \E order \in Iterdir(fs) :
    /\ cmd = "none"
    /\ cmd' = "list"
    /\ arg' = << >>
    /\ listing' = order
    /\ out' = get_all_skills(fs, order)
    /\ UNCHANGED <<fs, parseVars>>

\* search_skills(keyword)
SearchSkills ==
  \E keyword \in Keywords, order \in Iterdir(fs) :
    /\ cmd = "none"
    /\ cmd' = "search"
    /\ arg' = keyword
    /\ listing' = order
    /\ out' = search_skills(fs, order, keyword)
    /\ UNCHANGED <<fs, parseVars>>

\* find_skill_path(skill_name), as show_skill and copy_to_clipboard call it
FindSkillPath ==
  \E skill_name \in QueryNames, order \in Iterdir(fs) :
    /\ cmd = "none"
    /\ cmd' = "find"
    /\ arg' = skill_name
    /\ listing' = order
    /\ out' = find_skill_path(fs, order, skill_name)
    /\ UNCHANGED <<fs, parseVars>>

Next == ListSkills \/ SearchSkills \/ FindSkillPath

Spec == Init /\ [][Next]_vars

(***************************************************************************)
(* Properties of parse_frontmatter (checked under SpecParse)               *)
(***************************************************************************)
IsDelimLine(l) == Strip(l) = Delim

\* a well-formed `key: value` line: a colon, and a non-empty key before it
WellFormed(l) == HasColon(l) /\ Strip(SplitKey(Strip(l))) # << >>
KeyOf(l) == Strip(SplitKey(Strip(l)))
ValueOf(l) == Strip(SplitValue(Strip(l)))

SetMax(S) == CHOOSE m \in S : \A n \in S : n <= m
SetMin(S) == CHOOSE m \in S : \A n \in S : m <= n

DelimIdx(d) == {i \in 1..Len(d) : IsDelimLine(d[i])}
FirstDelim(d) == SetMin(DelimIdx(d))
SecondDelim(d) == SetMin(DelimIdx(d) \ {FirstDelim(d)})
HasTwoDelims(d) == Cardinality(DelimIdx(d)) >= 2

\* the mapping a block of lines denotes: for each key, the value of the last
\* line with that key
LastWins(lines) ==
  LET idx == {i \in 1..Len(lines) : HasColon(lines[i])}
      keys == {KeyOf(lines[i]) : i \in idx}
  IN [k \in keys |-> ValueOf(lines[SetMax({i \in idx : KeyOf(lines[i]) = k})])]

\* delimiter, N well-formed lines, delimiter, anything
HeaderShape(d) ==
  /\ HasTwoDelims(d)
  /\ FirstDelim(d) = 1
  /\ \A i \in 2..(SecondDelim(d) - 1) : WellFormed(d[i])

HeaderLines(d) == SubSeq(d, FirstDelim(d) + 1, SecondDelim(d) - 1)

\* C7: for a document whose header is N well-formed `key: value` lines between
\* two `---` lines, the returned mapping has exactly the distinct keys of those
\* lines, each mapped to the trimmed value of its last occurrence.
C7_LastOccurrenceWins ==
  (pc = "done" /\ HeaderShape(doc)) =>
    LET hdr == HeaderLines(doc) IN
      /\ DOMAIN metadata = {KeyOf(hdr[i]) : i \in 1..Len(hdr)}
      /\ \A k \in DOMAIN metadata :
           metadata[k] =
             ValueOf(hdr[SetMax({i \in 1..Len(hdr) : KeyOf(hdr[i]) = k})])

C7_Witness ==
  /\ pc = "done"
  /\ HeaderShape(doc)
  /\ Len(HeaderLines(doc)) = 2
  /\ KeyOf(HeaderLines(doc)[1]) = KeyOf(HeaderLines(doc)[2])
  /\ ValueOf(HeaderLines(doc)[1]) # ValueOf(HeaderLines(doc)[2])
  /\ metadata = [k \in {<<"a">>} |-> ValueOf(HeaderLines(doc)[2])]

\* C8: a document whose first line is not the `---` delimiter parses to the
\* empty mapping, whatever lines follow.
C8_NoLeadingDelimiterGivesEmpty ==
  (pc = "done" /\ Len(doc) >= 1 /\ ~IsDelimLine(doc[1])) => metadata = EmptyDict

\* C9: once the second `---` line is read parsing stops: the loop never moves
\* past it, and the returned mapping is determined by the lines strictly
\* between the first and the second delimiter.
C9_StopsAtSecondDelimiter ==
  HasTwoDelims(doc) =>
    /\ pos <= SecondDelim(doc)
    /\ pc = "done" => metadata = LastWins(HeaderLines(doc))

C9_Witness ==
  /\ pc = "done"
  /\ HasTwoDelims(doc)
  /\ pos = SecondDelim(doc)
  /\ \E i \in (SecondDelim(doc) + 1)..Len(doc) :
       HasColon(doc[i]) /\ KeyOf(doc[i]) \notin DOMAIN metadata
  /\ metadata # EmptyDict

(***************************************************************************)
(* Properties of the scanner, the search and the resolver (under Spec)     *)
(***************************************************************************)
\* the catalog a scan of fs returns with the enumeration order of the command
Catalog == get_all_skills(fs, listing)

\* the children the scanner is to list
Qualifying ==
  {n \in DOMAIN fs : fs[n].is_dir /\ EndsWith(n, Suffix) /\ fs[n].skill_md # "absent"}

Readable == {n \in Qualifying : fs[n].skill_md = "ok"}

Directories(skills) == {skills[i].directory : i \in 1..Len(skills)}

\* a <= b by code points, stated position by position
LexLeq(a, b) ==
  \/ Len(a) <= Len(b) /\ SubSeq(b, 1, Len(a)) = a
  \/ \E i \in 1..Len(a) :
       /\ i <= Len(b)
       /\ SubSeq(a, 1, i - 1) = SubSeq(b, 1, i - 1)
       /\ Code(a[i]) < Code(b[i])

\* C1: a scan never fails as a whole; a document that cannot be read is left
\* out and the entries of all other documents are returned.
C1_ScanNeverFails ==
  cmd = "list" =>
    /\ out.kind = "skills"
    /\ Directories(out.val) = Readable

\* C4: the output has exactly one entry for each child that is a directory,
\* ends with `-skill` and holds SKILL.md, and no entry for anything else.
C4_ExactlyTheQualifying ==
  cmd = "list" =>
    /\ out.kind = "skills"
    /\ Len(out.val) = Cardinality(Qualifying)
    /\ Directories(out.val) = Qualifying

\* C4 on the scans that return
C4_WhenScanReturns ==
  (cmd = "list" /\ out.kind = "skills") =>
    /\ Len(out.val) = Cardinality(Qualifying)
    /\ Directories(out.val) = Qualifying

\* C5: the returned sequence is ascending by displayName under code-point
\* comparison, displayName being the header's `name` if present and the
\* directory name otherwise.
C5_SortedByDisplayName ==
  (cmd = "list" /\ out.kind = "skills") =>
    /\ \A i \in 1..Len(out.val) :
         LET md == parse_frontmatter(fs[out.val[i].directory].content) IN
           out.val[i].name =
             IF kName \in DOMAIN md THEN md[kName] ELSE out.val[i].directory
    /\ \A i \in 1..(Len(out.val) - 1) :
         LexLeq(out.val[i].name, out.val[i + 1].name)

C5_Witness ==
  /\ cmd = "list"
  /\ out.kind = "skills"
  /\ Len(out.val) = 2
  /\ out.val[1].name = <<"B", "o">>
  /\ out.val[2].name = sASkill
  /\ listing[1] = sASkill

Hit(skill, keyword) ==
  \E field \in {skill.name, skill.description, skill.activation} :
    Contains(Lower(field), Lower(keyword))

\* C6: search_skills selects exactly the catalog entries with the lower-cased
\* keyword in the lower-cased displayName, description or activationHint, in
\* the catalog's order.
C6_SearchSelectsHits ==
  cmd = "search" =>
    /\ Catalog.kind = "skills"
    /\ out.kind = "skills"
    /\ out.val = SelectSeq(Catalog.val, LAMBDA s : Hit(s, arg))

\* C6 on the scans that return
C6_WhenScanReturns ==
  (cmd = "search" /\ Catalog.kind = "skills") =>
    /\ out.kind = "skills"
    /\ out.val = SelectSeq(Catalog.val, LAMBDA s : Hit(s, arg))

Identifiers == {sA, sASkill, <<"B">>, <<"c">>}

\* `x-skill` exists under the root and contains SKILL.md
ContainerPresent(x) ==
  /\ (x \o Suffix) \in DOMAIN fs
  /\ fs[x \o Suffix].is_dir
  /\ fs[x \o Suffix].skill_md # "absent"

\* C2 as stated: with `x-skill/SKILL.md` present, "x-skill" and "x" both
\* resolve to it.
C2_BothNamesResolve ==
  \A x \in Identifiers :
    (cmd = "find" /\ ContainerPresent(x) /\ arg \in {x, x \o Suffix}) =>
      out = Found(SkillMdPath(x \o Suffix))

\* C2 amended: "x-skill" resolves to `x-skill/SKILL.md`; "x" resolves to
\* `x/SKILL.md` when x itself exists and holds SKILL.md, and otherwise to
\* `x-skill/SKILL.md` when x does not end with `-skill`.
C2_ExactProbeFirst ==
  \A x \in Identifiers :
    (cmd = "find" /\ ContainerPresent(x)) =>
      /\ arg = x \o Suffix => out = Found(SkillMdPath(x \o Suffix))
      /\ arg = x =>
           IF x \in DOMAIN fs /\ fs[x].skill_md # "absent"
             THEN out = Found(SkillMdPath(x))
             ELSE ~EndsWith(x, Suffix) => out = Found(SkillMdPath(x \o Suffix))

C2_Witness ==
  /\ cmd = "find"
  /\ arg = sA
  /\ ContainerPresent(sA)
  /\ sA \in DOMAIN fs
  /\ fs[sA].skill_md = "absent"
  /\ out = Found(SkillMdPath(sASkill))

ProbesFail ==
  /\ ~(arg \in DOMAIN fs /\ fs[arg].skill_md # "absent")
  /\ ~(~EndsWith(arg, Suffix) /\ (arg \o Suffix) \in DOMAIN fs
         /\ fs[arg \o Suffix].skill_md # "absent")

FuzzyHits(skills) ==
  {i \in 1..Len(skills) : Contains(Lower(skills[i].name), Lower(arg))}

\* C3: when both probes fail, the result is the path of the earliest entry of
\* the sorted catalog whose lower-cased displayName contains the lower-cased
\* input, and the not-found value when no entry does.
C3_FuzzyFirstInSortedOrder ==
  (cmd = "find" /\ ProbesFail) =>
    /\ Catalog.kind = "skills"
    /\ IF FuzzyHits(Catalog.val) = {}
         THEN out = NotFound
         ELSE out = Found(Catalog.val[SetMin(FuzzyHits(Catalog.val))].path)

\* C3 on the scans that return
C3_WhenScanReturns ==
  (cmd = "find" /\ ProbesFail /\ Catalog.kind = "skills") =>
    IF FuzzyHits(Catalog.val) = {}
      THEN out = NotFound
      ELSE out = Found(Catalog.val[SetMin(FuzzyHits(Catalog.val))].path)

\* C10: a path find_skill_path returns is the documentPath of an entry of the
\* catalog get_all_skills returns for the same filesystem.
C10_ResolvesIntoCatalog ==
  (cmd = "find" /\ out.kind = "path" /\ Catalog.kind = "skills") =>
    \E i \in 1..Len(Catalog.val) : Catalog.val[i].path = out.val

====
